---- MODULE Spec2Model ----
(***************************************************************************)
(* Model of scores/csv_to_scorepulse.py: the CSV-to-ScorePulse converter.  *)
(* Strings are sequences of one-character strings, so that the regular     *)
(* expression, int(), strip(), split() and endswith() of the source are    *)
(* computed on the characters and not assumed.  Python's None is the empty *)
(* sequence for string- and list-valued names and 0 for default_tempo      *)
(* (both are falsy in the source, and no valid value coincides with them). *)
(***************************************************************************)
EXTENDS Integers, Sequences, FiniteSets, TLC

\* Largest number of rows/bars in an input.
MaxBars == 3

\* validate_tempo: 20 <= tempo_int <= 300
MinTempo == 20
MaxTempo == 300

None == <<>>

----------------------------------------------------------------------------
\* Characters and string helpers (Python str methods)

Digits == {"0", "1", "2", "3", "4", "5", "6", "7", "8", "9"}

DigitVal(c) ==
  CASE c = "0" -> 0 [] c = "1" -> 1 [] c = "2" -> 2 [] c = "3" -> 3
    [] c = "4" -> 4 [] c = "5" -> 5 [] c = "6" -> 6 [] c = "7" -> 7
    [] c = "8" -> 8 [] c = "9" -> 9

IsSpace(c) == c \in {" ", "\t", "\n"}

AllDigits(s) == \A k \in 1..Len(s) : s[k] \in Digits

RECURSIVE lstrip(_)
lstrip(s) == IF s # <<>> /\ IsSpace(Head(s)) THEN lstrip(Tail(s)) ELSE s

RECURSIVE rstrip(_)
rstrip(s) ==
  IF s # <<>> /\ IsSpace(s[Len(s)]) THEN rstrip(SubSeq(s, 1, Len(s) - 1)) ELSE s

\* str.strip()
strip(s) == rstrip(lstrip(s))

\* str.split(sep) for a one-character separator
RECURSIVE split(_, _)
split(s, sep) ==
  IF \E k \in 1..Len(s) : s[k] = sep
    THEN LET k == CHOOSE j \in 1..Len(s) :
                     s[j] = sep /\ \A m \in 1..(j - 1) : s[m] # sep
         IN  <<SubSeq(s, 1, k - 1)>> \o split(SubSeq(s, k + 1, Len(s)), sep)
    ELSE <<s>>

\* str.endswith(suffix)
endswith(s, suffix) ==
  /\ Len(s) >= Len(suffix)
  /\ SubSeq(s, Len(s) - Len(suffix) + 1, Len(s)) = suffix

RECURSIVE DigitsToNat(_)
DigitsToNat(s) ==
  IF s = <<>> THEN 0
  ELSE 10 * DigitsToNat(SubSeq(s, 1, Len(s) - 1)) + DigitVal(s[Len(s)])

\* int(str): surrounding whitespace is ignored, one optional sign, then one
\* or more digits; anything else raises ValueError (ok = FALSE).
int(s) ==
  LET t    == strip(s)
      sgn  == t # <<>> /\ Head(t) \in {"+", "-"}
      body == IF sgn THEN Tail(t) ELSE t
  IN  IF body # <<>> /\ AllDigits(body)
        THEN [ok |-> TRUE,
              val |-> IF sgn /\ Head(t) = "-" THEN 0 - DigitsToNat(body)
                      ELSE DigitsToNat(body)]
        ELSE [ok |-> FALSE, val |-> 0]

RECURSIVE sum(_)
sum(p) == IF p = <<>> THEN 0 ELSE Head(p) + sum(Tail(p))

----------------------------------------------------------------------------
\* The validators of the source

\* re.match(r'^\d+/\d+$', ts): '$' also matches before one trailing newline.
validate_time_signature(ts) ==
  LET body  == IF ts # <<>> /\ ts[Len(ts)] = "\n"
                 THEN SubSeq(ts, 1, Len(ts) - 1) ELSE ts
      parts == split(body, "/")
  IN  /\ ts # <<>>
      /\ Len(parts) = 2
      /\ parts[1] # <<>> /\ AllDigits(parts[1])
      /\ parts[2] # <<>> /\ AllDigits(parts[2])

\* parse_division: '2+2+3' -> <<2, 2, 3>>, None when blank, not integers or
\* not all positive.
parse_division(division) ==
  IF division = <<>> \/ strip(division) = <<>> THEN None
  ELSE LET parts == split(strip(division), "+")
           ints  == [k \in 1..Len(parts) |-> int(strip(parts[k]))]
       IN  IF /\ \A k \in 1..Len(parts) : ints[k].ok
              /\ \A k \in 1..Len(parts) : ints[k].val > 0
             THEN [k \in 1..Len(parts) |-> ints[k].val]
             ELSE None

\* numerator = int(time_signature.split('/')[0])
numerator_of(time_signature) == int(split(time_signature, "/")[1]).val

\* Variant: only a division that sums to more than the numerator is rejected.
validate_division_only_larger(division, time_signature) ==
  LET numerator    == numerator_of(time_signature)
      division_sum == sum(division)
  IN  IF division_sum > numerator
        THEN [is_valid |-> FALSE,
              error_msg |-> [division |-> division, division_sum |-> division_sum,
                             time_signature |-> time_signature,
                             numerator |-> numerator]]
        ELSE [is_valid |-> TRUE, error_msg |-> None]

validate_division_matches_time_signature(division, time_signature) ==
  LET numerator    == numerator_of(time_signature)
      division_sum == sum(division)
  IN  IF division_sum # numerator
        THEN [is_valid |-> FALSE,
              error_msg |-> [division |-> division, division_sum |-> division_sum,
                             time_signature |-> time_signature,
                             numerator |-> numerator]]
        ELSE [is_valid |-> TRUE, error_msg |-> None]

\* Variant: the upper limit of the range is not checked.
validate_tempo_no_upper_limit(tempo) ==
  LET tempo_int == int(tempo)
  IN  IF tempo_int.ok /\ MinTempo <= tempo_int.val
        THEN [is_valid |-> TRUE, tempo_val |-> tempo_int.val]
        ELSE [is_valid |-> FALSE, tempo_val |-> 0]

validate_tempo(tempo) ==
  LET tempo_int == int(tempo)
  IN  IF tempo_int.ok /\ MinTempo <= tempo_int.val /\ tempo_int.val <= MaxTempo
        THEN [is_valid |-> TRUE, tempo_val |-> tempo_int.val]
        ELSE [is_valid |-> FALSE, tempo_val |-> 0]

----------------------------------------------------------------------------
\* Field contents used as inputs

Str_4_4      == <<"4", "/", "4">>
Str_4_16     == <<"4", "/", "1", "6">>
Str_4_016    == <<"4", "/", "0", "1", "6">>
Str_4_16_nl  == <<"4", "/", "1", "6", "\n">>
Str_0_4      == <<"0", "/", "4">>
Str_4_0      == <<"4", "/", "0">>
Str_44       == <<"4", "4">>
Str_2p2      == <<"2", "+", "2">>
Str_1p3      == <<"1", "+", "3">>
Str_2p1      == <<"2", "+", "1">>
Str_0p4      == <<"0", "+", "4">>
Str_2p2_sp   == <<" ", "2", " ", "+", " ", "2">>
Str_x        == <<"x">>
Str_blank    == <<" ">>
Str_120      == <<"1", "2", "0">>
Str_19       == <<"1", "9">>
Str_20       == <<"2", "0">>
Str_300      == <<"3", "0", "0">>
Str_301      == <<"3", "0", "1">>
Str_60_sp    == <<" ", "6", "0">>
Str_abc      == <<"a", "b", "c">>
Str_A        == <<"A">>
Str_B        == <<"B">>
Str_Start    == <<"S", "t", "a", "r", "t">>
Str_T        == <<"T">>
Str_C        == <<"C">>
Str_1        == <<"1">>
Str_2        == <<"2">>
Str_2_sp     == <<" ", "2">>
Str_3        == <<"3">>

\* One element of bars_data (the dict built at lines 94-101)
Bar(n, ts, dv, tp, rm, tm) ==
  [bar_number |-> n, time_signature |-> ts, division |-> dv, tempo |-> tp,
   rehearsal_marking |-> rm, text_marking |-> tm]

\* A family of field contents: <<time_signature, division, tempo,
\* rehearsal_marking, text_marking>> for one bar.
Fields(tss, dvs, tps, rms, tms) == tss \X dvs \X tps \X rms \X tms

\* Meter changes and accent patterns, all syntactically valid.
FamMeter ==
  Fields({<<>>, Str_4_4, Str_4_16}, {<<>>, Str_2p2, Str_1p3, Str_2p1},
         {Str_120}, {<<>>}, {<<>>})

\* Spellings of a sixteenth-note meter.
FamSixteenth ==
  Fields({Str_4_16, Str_4_016, Str_4_16_nl}, {<<>>, Str_2p2},
         {Str_120}, {<<>>}, {<<>>})

\* Time-signature syntax.
FamSyntax ==
  Fields({<<>>, Str_4_4, Str_0_4, Str_4_0, Str_44}, {<<>>, Str_x},
         {Str_120}, {<<>>}, {<<>>})

\* Division syntax.
FamDivision ==
  Fields({Str_4_4}, {<<>>, Str_2p2, Str_0p4, Str_x, Str_2p2_sp, Str_blank},
         {Str_120}, {<<>>}, {<<>>})

\* Tempo and text marking.
FamTempo ==
  Fields({<<>>, Str_4_4}, {<<>>}, {<<>>, Str_120, Str_abc}, {<<>>},
         {<<>>, Str_Start})

\* The limits of the tempo range.
FamTempoRange ==
  Fields({Str_4_4}, {<<>>}, {Str_19, Str_20, Str_300, Str_301, Str_60_sp},
         {<<>>}, {<<>>})

\* Which of tempo and time signature are present at all.
FamDefaults ==
  Fields({<<>>, Str_4_4, Str_44}, {<<>>}, {<<>>, Str_120}, {<<>>}, {<<>>})

\* Rehearsal markings, repeated labels included.
FamMarks ==
  Fields({<<>>, Str_4_4}, {<<>>}, {Str_120}, {<<>>, Str_A, Str_B}, {<<>>})

\* Several defects in one input: bars with one defect each and bars with
\* defects of more than one kind.
FamOrder ==
  { <<Str_4_4, <<>>, Str_120, <<>>, <<>> >>,
    << <<>>, <<>>, <<>>, <<>>, <<>> >>,
    << <<>>, <<>>, Str_120, <<>>, <<>> >>,
    << <<>>, Str_x, <<>>, <<>>, <<>> >>,
    << <<>>, <<>>, Str_abc, <<>>, <<>> >>,
    <<Str_44, <<>>, <<>>, <<>>, <<>> >>,
    <<Str_4_16, <<>>, <<>>, <<>>, <<>> >>,
    <<Str_4_16, <<>>, Str_abc, <<>>, <<>> >>,
    <<Str_4_16, Str_x, <<>>, <<>>, <<>> >>,
    <<Str_4_4, Str_2p1, Str_abc, <<>>, <<>> >>,
    <<Str_44, Str_x, Str_abc, <<>>, <<>> >> }

\* Bar numbering, with and without other defects.
FamSequence ==
  { <<Str_4_4, <<>>, Str_120, <<>>, <<>> >>, <<Str_44, Str_x, Str_abc, <<>>, <<>> >> }

\* bars_data with bar numbers 1..n and the fields f[1], ..., f[n]
ContiguousBars(f, n) ==
  [k \in 1..n |-> Bar(k, f[k][1], f[k][2], f[k][3], f[k][4], f[k][5])]

\* bars_data with the bar numbers and fields g[k] = <<bar_number, fields>>
NumberedBars(g, n) ==
  [k \in 1..n |->
     Bar(g[k][1], g[k][2][1], g[k][2][2], g[k][2][3], g[k][2][4], g[k][2][5])]

\* The families tried with a fixed non-empty title and composer
Families ==
  {FamMeter, FamSixteenth, FamSyntax, FamDivision, FamTempo, FamDefaults,
   FamMarks, FamOrder}

----------------------------------------------------------------------------
\* Rows of the CSV file as csv.DictReader yields them.  Missing is the None
\* that DictReader stores for a column absent from a short row (the last
\* choice below is a short row of a file whose BAR NUMBER column is not the
\* first).

Missing == <<"None">>

Str_4_4_sp == <<" ", "4", "/", "4", " ">>

Row(bn, ts, dv, tp, rm, tm) ==
  [BAR_NUMBER |-> bn, TIME_SIGNATURE |-> ts, DIVISION |-> dv, TEMPO |-> tp,
   REHEARSAL_MARKING |-> rm, TEXT_MARKING |-> tm]

CsvRowChoices ==
  { Row(Str_1, Str_4_4_sp, <<>>, Str_120, Str_A, Str_Start),
    Row(Str_2, <<>>, <<>>, <<>>, <<>>, <<>>),
    Row(Str_2_sp, Str_4_4, Str_2p2, Str_60_sp, Str_B, <<>>),
    Row(Str_3, <<>>, <<>>, <<>>, <<>>, <<>>),
    Row(<<>>, Str_4_4, <<>>, Str_120, <<>>, <<>>),
    Row(Str_x, Str_4_4, <<>>, Str_120, <<>>, <<>>),
    Row(Str_1, Str_4_4, <<>>, Missing, Missing, Missing),
    Row(Missing, Str_4_4, <<>>, Missing, Missing, Missing) }

\* The input file: whether it exists, and its rows
NoCsvFile == [exists |-> FALSE, rows |-> <<>>]

\* What the user types at the two prompts of main
TypedLines == {<<>>, Str_blank, Str_T}

----------------------------------------------------------------------------
\* Errors: the raise statement (its line in the source) and what the message
\* names.

NoError == [kind |-> "none"]

ErrNoBarData == [kind |-> "NoBarData", line |-> 113]
ErrSequencing(expected, got) ==
  [kind |-> "Sequencing", line |-> 119, expected |-> expected, got |-> got]
ErrInvalidTempo(ln, tempo, bar_num) ==
  [kind |-> "InvalidTempo", line |-> ln, value |-> tempo, bar |-> bar_num]
ErrInvalidTimeSignature(ln, ts, bar_num) ==
  [kind |-> "InvalidTimeSignature", line |-> ln, value |-> ts, bar |-> bar_num]
ErrNoTempo == [kind |-> "NoTempo", line |-> 144]
ErrNoTimeSignature == [kind |-> "NoTimeSignature", line |-> 146]
ErrInvalidDivision(dv, bar_num) ==
  [kind |-> "InvalidDivision", line |-> 164, value |-> dv, bar |-> bar_num]
ErrDivisionMismatch(bar_num, msg) ==
  [kind |-> "DivisionMismatch", line |-> 180, bar |-> bar_num,
   division |-> msg.division, division_sum |-> msg.division_sum,
   time_signature |-> msg.time_signature, numerator |-> msg.numerator]
ErrRequiresDivision(bar_num, ts) ==
  [kind |-> "RequiresDivision", line |-> 185, bar |-> bar_num, time_signature |-> ts]
ErrAttribute == [kind |-> "AttributeError", line |-> 96]
ErrFileNotFound == [kind |-> "FileNotFoundError", line |-> 80]

----------------------------------------------------------------------------
VARIABLES
  entry,          \* "main" or "create_score": how the program was entered
  argc,           \* len(sys.argv)
  csv_file,       \* the input file: [exists, rows]
  bars_data,      \* parse_csv's result / create_score's argument
  title, composer,
  pc,             \* where control is
  default_tempo, first_time_signature,        \* locals of process_bars_data
  current_time_signature, current_accent_pattern,
  bars, tempo_changes, rehearsal_marks,
  i,              \* index of the bar the per-bar loop (line 156) is at
  uuid_count,     \* number of identities generated so far
  processed,      \* what process_bars_data returned (None before, and if it raised)
  score,          \* what create_score returned (None before, and if it raised)
  error,          \* the exception raised, NoError if none
  warnings,       \* bar-number strings parse_csv warned about
  output_file,    \* content written to the output file, None if never opened
  exit_status,    \* sys.exit status, -1 while running or returned normally
  previous        \* outcome of an earlier call of create_score on bars_data

vars == <<entry, argc, csv_file, bars_data, title, composer, pc, default_tempo,
          first_time_signature, current_time_signature, current_accent_pattern,
          bars, tempo_changes, rehearsal_marks, i, uuid_count, processed, score,
          error, warnings, output_file, exit_status, previous>>

locals == <<default_tempo, first_time_signature, current_time_signature,
            current_accent_pattern, bars, tempo_changes, rehearsal_marks, i>>

\* No earlier call
NoCall == [called |-> FALSE]

InitRest ==
  /\ previous = NoCall
  /\ default_tempo = 0 /\ first_time_signature = None
  /\ current_time_signature = None /\ current_accent_pattern = None
  /\ bars = <<>> /\ tempo_changes = <<>> /\ rehearsal_marks = <<>>
  /\ i = 0 /\ uuid_count = 0
  /\ processed = None /\ score = None /\ error = NoError
  /\ warnings = <<>> /\ output_file = None /\ exit_status = -1

\* create_score(bars_data, title, composer) called by an importing program
InitDirect ==
  /\ entry = "create_score" /\ argc = 0
  /\ csv_file = NoCsvFile
  /\ \E n \in 0..MaxBars :
       \/ /\ \E F \in Families : \E f \in [1..n -> F] :
                bars_data = ContiguousBars(f, n)
          /\ title = Str_T /\ composer = Str_C
       \/ /\ \E g \in [1..n -> (1..(MaxBars + 1)) \X FamSequence] :
                bars_data = NumberedBars(g, n)
          /\ title = Str_T /\ composer = Str_C
       \/ /\ \E f \in [1..n -> FamTempoRange] : bars_data = ContiguousBars(f, n)
          /\ title \in {<<>>, Str_T} /\ composer \in {<<>>, Str_C}
  /\ pc = "create_score"
  /\ InitRest

\* the script run from the command line
InitMain ==
  /\ entry = "main"
  /\ \/ /\ argc = 3
        /\ \/ csv_file = NoCsvFile
           \/ \E n \in 0..MaxBars : \E r \in [1..n -> CsvRowChoices] :
                csv_file = [exists |-> TRUE, rows |-> r]
     \/ argc = 2 /\ csv_file = NoCsvFile
  /\ bars_data = <<>> /\ title = None /\ composer = None
  /\ pc = "main"
  /\ InitRest

Init == InitDirect \/ InitMain

----------------------------------------------------------------------------
\* parse_csv (lines 76-107)

\* list.sort(key=bar_number) is stable: x goes after every element whose key
\* is not larger.
RECURSIVE insert_sorted(_, _)
insert_sorted(sorted, x) ==
  IF sorted = <<>> THEN <<x>>
  ELSE IF sorted[Len(sorted)].bar_number <= x.bar_number
         THEN Append(sorted, x)
         ELSE Append(insert_sorted(SubSeq(sorted, 1, Len(sorted) - 1), x),
                     sorted[Len(sorted)])

RECURSIVE sort_by_bar_number(_)
sort_by_bar_number(data) ==
  IF data = <<>> THEN <<>>
  ELSE insert_sorted(sort_by_bar_number(SubSeq(data, 1, Len(data) - 1)),
                     data[Len(data)])

\* The loop of lines 83-102 from row k on: data and warns are bars_data and
\* the warnings printed so far.
RECURSIVE read_rows(_, _, _, _)
read_rows(rows, k, data, warns) ==
  IF k > Len(rows) THEN [error |-> NoError, bars_data |-> data, warnings |-> warns]
  ELSE LET row == rows[k]
           bar_num_str == strip(row.BAR_NUMBER)
           bar_num == int(bar_num_str)
       IN  IF row.BAR_NUMBER = Missing
             THEN [error |-> ErrAttribute, bars_data |-> <<>>, warnings |-> warns]
           ELSE IF bar_num_str = <<>>
             THEN read_rows(rows, k + 1, data, warns)
           ELSE IF ~bar_num.ok
             THEN read_rows(rows, k + 1, data, Append(warns, bar_num_str))
           ELSE IF Missing \in {row.TIME_SIGNATURE, row.DIVISION, row.TEMPO,
                                row.REHEARSAL_MARKING, row.TEXT_MARKING}
             THEN [error |-> ErrAttribute, bars_data |-> <<>>, warnings |-> warns]
           ELSE read_rows(rows, k + 1,
                          Append(data,
                                 Bar(bar_num.val, strip(row.TIME_SIGNATURE),
                                     strip(row.DIVISION), strip(row.TEMPO),
                                     strip(row.REHEARSAL_MARKING),
                                     strip(row.TEXT_MARKING))),
                          warns)

parse_csv(file) ==
  IF ~file.exists
    THEN [error |-> ErrFileNotFound, bars_data |-> <<>>, warnings |-> <<>>]
    ELSE LET r == read_rows(file.rows, 1, <<>>, <<>>)
         IN  IF r.error # NoError THEN r
             ELSE [r EXCEPT !.bars_data = sort_by_bar_number(r.bars_data)]

----------------------------------------------------------------------------
\* process_bars_data (lines 110-247)

\* Variant: bar numbers are only required to increase.
first_not_increasing(data) ==
  IF \E k \in 2..Len(data) : data[k].bar_number <= data[k - 1].bar_number
    THEN CHOOSE k \in 2..Len(data) :
           /\ data[k].bar_number <= data[k - 1].bar_number
           /\ \A m \in 2..(k - 1) : data[m].bar_number > data[m - 1].bar_number
    ELSE 0

\* Lines 116-120: the first position whose bar number is not the expected
\* one, 0 if there is none.
first_out_of_sequence(data) ==
  IF \E k \in 1..Len(data) : data[k].bar_number # k
    THEN CHOOSE k \in 1..Len(data) :
           /\ data[k].bar_number # k
           /\ \A m \in 1..(k - 1) : data[m].bar_number = m
    ELSE 0

\* Lines 126-141 from bar k on, with the defaults found so far.
RECURSIVE find_defaults(_, _, _, _)
find_defaults(data, k, dt, fts) ==
  IF k > Len(data)
    THEN [error |-> NoError, default_tempo |-> dt, first_time_signature |-> fts]
  ELSE LET bar == data[k]
           look_tempo == bar.tempo # <<>> /\ dt = 0
           vt == validate_tempo(bar.tempo)
           dt1 == IF look_tempo THEN vt.tempo_val ELSE dt
           look_ts == bar.time_signature # <<>> /\ fts = None
           fts1 == IF look_ts THEN bar.time_signature ELSE fts
       IN  IF look_tempo /\ ~vt.is_valid
             THEN [error |-> ErrInvalidTempo(132, bar.tempo, bar.bar_number),
                   default_tempo |-> 0, first_time_signature |-> None]
           ELSE IF look_ts /\ ~validate_time_signature(bar.time_signature)
             THEN [error |-> ErrInvalidTimeSignature(138, bar.time_signature,
                                                     bar.bar_number),
                   default_tempo |-> 0, first_time_signature |-> None]
           ELSE IF dt1 # 0 /\ fts1 # None
             THEN [error |-> NoError, default_tempo |-> dt1,
                   first_time_signature |-> fts1]
           ELSE find_defaults(data, k + 1, dt1, fts1)

\* Variant: every non-empty time-signature field counts as a change.
time_sig_always_changed(bar, cts) == bar.time_signature # <<>>

\* Line 172
time_sig_changed(bar, cts) ==
  bar.time_signature # <<>> /\ bar.time_signature # cts

\* Variant: the /16 requirement is not enforced.
requires_division_never(cts, changed, accent_pattern) == FALSE

\* Lines 183-184: a /16 time signature set at this bar without a division
requires_division(cts, changed, accent_pattern) ==
  cts # None /\ endswith(cts, <<"/", "1", "6">>) /\ changed /\ accent_pattern = None

\* Variant: every bar with a division counts as a change.
accent_pattern_always_changed(accent_pattern, cap) == accent_pattern # None

\* Line 188
accent_pattern_changed(accent_pattern, cap) ==
  accent_pattern # cap /\ accent_pattern # None

\* Variant: a time-signature change without a division keeps the pattern.
emitted_accent_pattern_kept(accent_pattern, changed, cap) ==
  IF accent_pattern # None THEN accent_pattern ELSE cap

\* Lines 192-196: the running accent pattern after an emission
emitted_accent_pattern(accent_pattern, changed, cap) ==
  IF accent_pattern # None THEN accent_pattern
  ELSE IF changed THEN None
  ELSE cap

\* Lines 199-205: the bare string is the object with accentPattern = None
time_sig_obj(cts, cap) == [timeSignature |-> cts, accentPattern |-> cap]

\* Lines 214-229: the tempo change of a bar, <<>> if it has no tempo
tempo_change_of(bar, id) ==
  IF bar.tempo = <<>> THEN <<>>
  ELSE << [id |-> id, bar |-> bar.bar_number,
           tempo |-> validate_tempo(bar.tempo).tempo_val,
           marking |-> bar.text_marking] >>

\* Lines 232-237
rehearsal_mark_of(bar, id) ==
  IF bar.rehearsal_marking = <<>> THEN <<>>
  ELSE << [id |-> id, name |-> bar.rehearsal_marking, bar |-> bar.bar_number] >>

\* Variant: a label already in the list is not added again.
rehearsal_marks_append_unique(marks, new_marks) ==
  IF new_marks # <<>> /\ \E k \in 1..Len(marks) : marks[k].name = new_marks[1].name
    THEN marks
  ELSE marks \o new_marks

\* Line 233: rehearsal_marks.append, nothing appended when new_marks is empty
rehearsal_marks_append(marks, new_marks) == marks \o new_marks

\* One iteration of the loop of line 156 on `bar`, with the running time
\* signature cts, the running accent pattern cap and n identities generated.
bar_step(bar, cts, cap, n) ==
  LET bar_num        == bar.bar_number
      accent_pattern == IF bar.division # <<>> THEN parse_division(bar.division)
                        ELSE None
      changed        == time_sig_changed(bar, cts)
      cts1           == IF changed THEN bar.time_signature ELSE cts
      check          == validate_division_matches_time_signature(accent_pattern, cts1)
      emit           == changed \/ accent_pattern_changed(accent_pattern, cap)
      cap1           == IF emit THEN emitted_accent_pattern(accent_pattern, changed, cap)
                        ELSE cap
      new_bars       == IF emit
                          THEN << [id |-> n + 1, number |-> bar_num,
                                   timeSignature |-> time_sig_obj(cts1, cap1)] >>
                          ELSE <<>>
      n1             == n + Len(new_bars)
      new_tempo      == tempo_change_of(bar, n1 + 1)
      n2             == n1 + Len(new_tempo)
      new_marks      == rehearsal_mark_of(bar, n2 + 1)
  IN  IF bar.division # <<>> /\ accent_pattern = None
        THEN [error |-> ErrInvalidDivision(bar.division, bar_num)]
      ELSE IF bar.time_signature # <<>> /\ ~validate_time_signature(bar.time_signature)
        THEN [error |-> ErrInvalidTimeSignature(170, bar.time_signature, bar_num)]
      ELSE IF accent_pattern # None /\ cts1 # None /\ ~check.is_valid
        THEN [error |-> ErrDivisionMismatch(bar_num, check.error_msg)]
      ELSE IF requires_division(cts1, changed, accent_pattern)
        THEN [error |-> ErrRequiresDivision(bar_num, cts1)]
      ELSE IF bar.tempo # <<>> /\ ~validate_tempo(bar.tempo).is_valid
        THEN [error |-> ErrInvalidTempo(217, bar.tempo, bar_num)]
      ELSE [error |-> NoError,
            current_time_signature |-> cts1, current_accent_pattern |-> cap1,
            new_bars |-> new_bars, new_tempo |-> new_tempo, new_marks |-> new_marks,
            uuid_count |-> n2 + Len(new_marks)]

\* Variant: the number of the first bar is taken.
total_bars_first(data) == data[1].bar_number

\* Line 239: bars_data[-1]['bar_number']
total_bars(data) == data[Len(data)].bar_number

----------------------------------------------------------------------------
\* Actions

\* An exception leaves process_bars_data and create_score: their frames, the
\* event lists included, are gone and nothing is returned.
Raise(err) ==
  /\ pc' = "raised"
  /\ error' = err
  /\ default_tempo' = 0 /\ first_time_signature' = None
  /\ current_time_signature' = None /\ current_accent_pattern' = None
  /\ bars' = <<>> /\ tempo_changes' = <<>> /\ rehearsal_marks' = <<>>
  /\ i' = 0

\* Lines 269-271
MainUsage ==
  /\ pc = "main" /\ argc # 3
  /\ pc' = "exited" /\ exit_status' = 1
  /\ UNCHANGED <<entry, previous, argc, csv_file, bars_data, title, composer, locals,
                 uuid_count, processed, score, error, warnings, output_file>>

\* Lines 273-280
MainParseCsv ==
  /\ pc = "main" /\ argc = 3
  /\ LET r == parse_csv(csv_file)
     IN  /\ warnings' = r.warnings
         /\ IF r.error # NoError
              THEN Raise(r.error) /\ UNCHANGED bars_data
              ELSE /\ bars_data' = r.bars_data
                   /\ pc' = "main_title"
                   /\ UNCHANGED <<locals, error>>
  /\ UNCHANGED <<entry, previous, argc, csv_file, title, composer, uuid_count, processed,
                 score, output_file, exit_status>>

\* Lines 284-287
MainReadTitle ==
  /\ pc = "main_title"
  /\ \E typed \in TypedLines :
       /\ title' = strip(typed)
       /\ IF strip(typed) = <<>>
            THEN pc' = "exited" /\ exit_status' = 1
            ELSE pc' = "main_composer" /\ UNCHANGED exit_status
  /\ UNCHANGED <<entry, previous, argc, csv_file, bars_data, composer, locals, uuid_count,
                 processed, score, error, warnings, output_file>>

\* Lines 289-292
MainReadComposer ==
  /\ pc = "main_composer"
  /\ \E typed \in TypedLines :
       /\ composer' = strip(typed)
       /\ IF strip(typed) = <<>>
            THEN pc' = "exited" /\ exit_status' = 1
            ELSE pc' = "create_score" /\ UNCHANGED exit_status
  /\ UNCHANGED <<entry, previous, argc, csv_file, bars_data, title, locals, uuid_count,
                 processed, score, error, warnings, output_file>>

\* Line 252 entering process_bars_data, lines 112-120
CheckSequence ==
  /\ pc = "create_score"
  /\ LET k == first_out_of_sequence(bars_data)
     IN  IF bars_data = <<>> THEN Raise(ErrNoBarData)
         ELSE IF k # 0 THEN Raise(ErrSequencing(k, bars_data[k].bar_number))
         ELSE /\ pc' = "find_defaults"
              /\ UNCHANGED <<locals, error>>
  /\ UNCHANGED <<entry, previous, argc, csv_file, bars_data, title, composer, uuid_count,
                 processed, score, warnings, output_file, exit_status>>

\* Variant: every bar with a tempo overwrites the default tempo.
FindDefaultsLastTempo ==
  /\ pc = "find_defaults"
  /\ LET r == find_defaults(bars_data, 1, 0, None)
         last == CHOOSE k \in 1..Len(bars_data) :
                   /\ bars_data[k].tempo # <<>>
                   /\ \A m \in (k + 1)..Len(bars_data) : bars_data[m].tempo = <<>>
     IN  IF r.error # NoError THEN Raise(r.error)
         ELSE /\ default_tempo' = IF r.default_tempo = 0 THEN 0
                                  ELSE validate_tempo(bars_data[last].tempo).tempo_val
              /\ first_time_signature' = r.first_time_signature
              /\ pc' = "check_defaults"
              /\ UNCHANGED <<current_time_signature, current_accent_pattern, bars,
                             tempo_changes, rehearsal_marks, i, error>>
  /\ UNCHANGED <<entry, previous, argc, csv_file, bars_data, title, composer,
                 uuid_count, processed, score, warnings, output_file, exit_status>>

\* Lines 122-141
FindDefaults ==
  /\ pc = "find_defaults"
  /\ LET r == find_defaults(bars_data, 1, 0, None)
     IN  IF r.error # NoError THEN Raise(r.error)
         ELSE /\ default_tempo' = r.default_tempo
              /\ first_time_signature' = r.first_time_signature
              /\ pc' = "check_defaults"
              /\ UNCHANGED <<current_time_signature, current_accent_pattern, bars,
                             tempo_changes, rehearsal_marks, i, error>>
  /\ UNCHANGED <<entry, previous, argc, csv_file, bars_data, title, composer, uuid_count,
                 processed, score, warnings, output_file, exit_status>>

\* Variant: the running values are kept from the previous call.
InitLoopStateKeepsRunning ==
  /\ bars' = <<>> /\ tempo_changes' = <<>> /\ rehearsal_marks' = <<>>
  /\ UNCHANGED <<current_time_signature, current_accent_pattern>>

\* Lines 149-154
InitLoopState ==
  /\ bars' = <<>> /\ tempo_changes' = <<>> /\ rehearsal_marks' = <<>>
  /\ current_time_signature' = None /\ current_accent_pattern' = None

\* Variant: the time signature is checked before the tempo.
CheckDefaultsTimeSignatureFirst ==
  /\ pc = "check_defaults"
  /\ IF first_time_signature = None THEN Raise(ErrNoTimeSignature)
     ELSE IF default_tempo = 0 THEN Raise(ErrNoTempo)
     ELSE /\ pc' = "per_bar"
          /\ InitLoopState
          /\ i' = 1
          /\ UNCHANGED <<default_tempo, first_time_signature, error>>
  /\ UNCHANGED <<entry, previous, argc, csv_file, bars_data, title, composer, uuid_count,
                 processed, score, warnings, output_file, exit_status>>

\* Lines 143-154
CheckDefaults ==
  /\ pc = "check_defaults"
  /\ IF default_tempo = 0 THEN Raise(ErrNoTempo)
     ELSE IF first_time_signature = None THEN Raise(ErrNoTimeSignature)
     ELSE /\ pc' = "per_bar"
          /\ InitLoopState
          /\ i' = 1
          /\ UNCHANGED <<default_tempo, first_time_signature, error>>
  /\ UNCHANGED <<entry, previous, argc, csv_file, bars_data, title, composer, uuid_count,
                 processed, score, warnings, output_file, exit_status>>

\* Variant: the loop validates the tempo of a bar before its other fields.
ProcessBarTempoFirst ==
  /\ pc = "per_bar" /\ i <= Len(bars_data)
  /\ LET r == bar_step(bars_data[i], current_time_signature,
                       current_accent_pattern, uuid_count)
         bar == bars_data[i]
     IN  IF bar.tempo # <<>> /\ ~validate_tempo(bar.tempo).is_valid
           THEN Raise(ErrInvalidTempo(217, bar.tempo, bar.bar_number))
                /\ UNCHANGED uuid_count
         ELSE IF r.error # NoError THEN Raise(r.error) /\ UNCHANGED uuid_count
         ELSE /\ current_time_signature' = r.current_time_signature
              /\ current_accent_pattern' = r.current_accent_pattern
              /\ bars' = bars \o r.new_bars
              /\ tempo_changes' = tempo_changes \o r.new_tempo
              /\ rehearsal_marks' = rehearsal_marks_append(rehearsal_marks, r.new_marks)
              /\ uuid_count' = r.uuid_count
              /\ i' = i + 1
              /\ UNCHANGED <<pc, default_tempo, first_time_signature, error>>
  /\ UNCHANGED <<entry, previous, argc, csv_file, bars_data, title, composer,
                 processed, score, warnings, output_file, exit_status>>

\* Lines 156-237: one iteration of the per-bar loop
ProcessBar ==
  /\ pc = "per_bar" /\ i <= Len(bars_data)
  /\ LET r == bar_step(bars_data[i], current_time_signature,
                       current_accent_pattern, uuid_count)
     IN  IF r.error # NoError THEN Raise(r.error) /\ UNCHANGED uuid_count
         ELSE /\ current_time_signature' = r.current_time_signature
              /\ current_accent_pattern' = r.current_accent_pattern
              /\ bars' = bars \o r.new_bars
              /\ tempo_changes' = tempo_changes \o r.new_tempo
              /\ rehearsal_marks' = rehearsal_marks_append(rehearsal_marks, r.new_marks)
              /\ uuid_count' = r.uuid_count
              /\ i' = i + 1
              /\ UNCHANGED <<pc, default_tempo, first_time_signature, error>>
  /\ UNCHANGED <<entry, previous, argc, csv_file, bars_data, title, composer, processed,
                 score, warnings, output_file, exit_status>>

\* Lines 239-247: process_bars_data returns
ReturnProcessed ==
  /\ pc = "per_bar" /\ i > Len(bars_data)
  /\ processed' = [default_tempo |-> default_tempo, bars |-> bars,
                   tempo_changes |-> tempo_changes,
                   rehearsal_marks |-> rehearsal_marks,
                   total_bars |-> total_bars(bars_data)]
  /\ pc' = "build_score"
  /\ UNCHANGED <<entry, previous, argc, csv_file, bars_data, title, composer, locals,
                 uuid_count, score, error, warnings, output_file, exit_status>>

\* Lines 254-265: create_score returns
BuildScore ==
  /\ pc = "build_score"
  /\ score' = [id |-> uuid_count + 1, title |-> title, composer |-> composer,
               defaultTempo |-> processed.default_tempo,
               tempoChanges |-> processed.tempo_changes,
               rehearsalMarks |-> processed.rehearsal_marks,
               bars |-> processed.bars, totalBars |-> processed.total_bars]
  /\ uuid_count' = uuid_count + 1
  /\ pc' = IF entry = "main" THEN "main_write" ELSE "returned"
  /\ UNCHANGED <<entry, previous, argc, csv_file, bars_data, title, composer, locals,
                 processed, error, warnings, output_file, exit_status>>

\* Lines 299-309
MainWrite ==
  /\ pc = "main_write"
  /\ output_file' = score
  /\ pc' = "exited" /\ exit_status' = 0
  /\ UNCHANGED <<entry, previous, argc, csv_file, bars_data, title, composer, locals,
                 uuid_count, processed, score, error, warnings>>

\* Lines 311-319: main's handlers print the error and exit with status 1
MainExcept ==
  /\ pc = "raised" /\ entry = "main"
  /\ pc' = "exited" /\ exit_status' = 1
  /\ UNCHANGED <<entry, previous, argc, csv_file, bars_data, title, composer, locals,
                 uuid_count, processed, score, error, warnings, output_file>>

\* The importing program calls create_score again with the same arguments.
\* The variables of process_bars_data keep what the first call left in them
\* until the statements of the new call assign them.
CallAgain ==
  /\ entry = "create_score" /\ pc \in {"returned", "raised"}
  /\ ~previous.called
  /\ previous' = [called |-> TRUE, error |-> error, score |-> score]
  /\ pc' = "create_score"
  /\ error' = NoError /\ processed' = None /\ score' = None
  /\ UNCHANGED <<entry, argc, csv_file, bars_data, title, composer, locals,
                 uuid_count, warnings, output_file, exit_status>>

Next ==
  \/ MainUsage
  \/ MainParseCsv
  \/ MainReadTitle
  \/ MainReadComposer
  \/ CheckSequence
  \/ FindDefaults
  \/ CheckDefaults
  \/ ProcessBar
  \/ ReturnProcessed
  \/ BuildScore
  \/ MainWrite
  \/ MainExcept
  \/ CallAgain

Spec == Init /\ [][Next]_vars

----------------------------------------------------------------------------
\* Vocabulary of the properties, stated on the input and the outcome

\* process_bars_data raised (the raise statements of lines 113-217)
ProcessFailed == error # NoError /\ error.line >= 110

\* process_bars_data returned
ProcessReturned == processed # None

ProcessEnded == ProcessFailed \/ ProcessReturned

\* The positions whose bar number is not the position
OutOfSequence == {k \in 1..Len(bars_data) : bars_data[k].bar_number # k}

Contiguous == bars_data # <<>> /\ OutOfSequence = {}

Least(S) == CHOOSE k \in S : \A m \in S : k <= m

\* The time signature in force at bar k of the input: the last non-empty
\* time-signature field of bars 1..k, None if there is none.
RECURSIVE InForce(_)
InForce(k) ==
  IF k = 0 THEN None
  ELSE IF bars_data[k].time_signature # <<>> THEN bars_data[k].time_signature
  ELSE InForce(k - 1)

\* The denominator of a fraction string, as a number
Denominator(ts) ==
  LET parts == split(ts, "/")
  IN  IF Len(parts) = 2 THEN int(parts[2]).val ELSE 0

\* A tempo field is an integer in the valid range
TempoInRange(tempo) ==
  int(tempo).ok /\ int(tempo).val >= MinTempo /\ int(tempo).val <= MaxTempo

\* The per-bar loop has dealt with bar k: it went past it, or it raised at
\* it or at a later bar.
HandledByLoop(k) ==
  \/ pc = "per_bar" /\ i > k
  \/ ProcessReturned
  \/ /\ ProcessFailed
     /\ error.line \in {164, 170, 180, 185, 217}
     /\ error.bar >= k

\* Bar k supplies an accent pattern whose sum is not the numerator of the
\* (valid) time signature in force at bar k.
Mismatch(k) ==
  LET p == parse_division(bars_data[k].division)
      t == InForce(k)
  IN  /\ p # None
      /\ t # None /\ validate_time_signature(t)
      /\ sum(p) # numerator_of(t)

\* Bar k sets a time signature ending in /16, other than the one in force
\* before it, and supplies no division.
SixteenthWithoutDivision(k) ==
  LET t == bars_data[k].time_signature
  IN  /\ endswith(t, <<"/", "1", "6">>)
      /\ t # InForce(k - 1)
      /\ bars_data[k].division = <<>>

\* The input has something one of the validation errors is raised for.
HasDefect ==
  \/ bars_data = <<>>
  \/ OutOfSequence # {}
  \/ \A k \in 1..Len(bars_data) : bars_data[k].tempo = <<>>
  \/ \A k \in 1..Len(bars_data) : bars_data[k].time_signature = <<>>
  \/ \E k \in 1..Len(bars_data) :
       \/ bars_data[k].tempo # <<>> /\ ~TempoInRange(bars_data[k].tempo)
       \/ /\ bars_data[k].time_signature # <<>>
          /\ ~validate_time_signature(bars_data[k].time_signature)
       \/ /\ bars_data[k].division # <<>>
          /\ parse_division(bars_data[k].division) = None
       \/ Mismatch(k)
       \/ SixteenthWithoutDivision(k)

----------------------------------------------------------------------------
\* C1: in a returned result the bar numbers of the time-signature events are
\* strictly increasing, and every event differs from the event before it in
\* its time signature or in its accent pattern.
C1_ChangesStrictlyIncreasing ==
  ProcessReturned =>
    \A k \in 2..Len(processed.bars) :
      /\ processed.bars[k - 1].number < processed.bars[k].number
      /\ \/ processed.bars[k].timeSignature.timeSignature
              # processed.bars[k - 1].timeSignature.timeSignature
         \/ processed.bars[k].timeSignature.accentPattern
              # processed.bars[k - 1].timeSignature.accentPattern

\* C1 witness: three bars, the second restating the first's division, gave
\* two events.
C1_Witness ==
  /\ ProcessReturned
  /\ Len(bars_data) = 3
  /\ bars_data[2].division # <<>>
  /\ bars_data[2].division = bars_data[1].division
  /\ Len(processed.bars) = 2
  /\ processed.bars[2].number = 3

\* C2: every event of a returned result that carries an accent pattern
\* carries a time signature whose numerator is the pattern's sum.
C2_PatternSumsToNumerator ==
  ProcessReturned =>
    \A k \in 1..Len(processed.bars) :
      LET ts == processed.bars[k].timeSignature
      IN  ts.accentPattern # None =>
            /\ ts.timeSignature # None
            /\ sum(ts.accentPattern) = numerator_of(ts.timeSignature)

\* C3: a result is returned only for bar numbers 1..N in order; otherwise
\* the sequencing error is the one raised, expecting the first position that
\* does not hold its own number and naming the number found there.
C3_SequencingFirst ==
  /\ ProcessReturned => OutOfSequence = {}
  /\ (ProcessEnded /\ OutOfSequence # {}) =>
       error = [kind |-> "Sequencing", line |-> 119,
                expected |-> Least(OutOfSequence),
                got |-> bars_data[Least(OutOfSequence)].bar_number]

\* C3 witness: bar numbers 1, 3, 4 with an invalid tempo at bar 1 fail
\* expecting 2 and finding 3.
C3_Witness ==
  /\ Len(bars_data) = 3
  /\ bars_data[1].bar_number = 1 /\ bars_data[2].bar_number = 3
  /\ bars_data[3].bar_number = 4
  /\ bars_data[1].tempo = Str_abc
  /\ error.kind = "Sequencing" /\ error.expected = 2 /\ error.got = 3

\* C4: create_score called with an empty title or an empty composer returns
\* no document.
C4_EmptyTitleOrComposerRejected ==
  (title = <<>> \/ composer = <<>>) => score = None

\* C5: every time signature of an event of a returned result has a positive
\* numerator and a positive denominator, and no input with a time-signature
\* field whose numerator or denominator is 0 gets a result.
C5_PositiveFraction ==
  ProcessReturned =>
    /\ \A k \in 1..Len(processed.bars) :
         /\ numerator_of(processed.bars[k].timeSignature.timeSignature) > 0
         /\ Denominator(processed.bars[k].timeSignature.timeSignature) > 0
    /\ \A k \in 1..Len(bars_data) :
         validate_time_signature(bars_data[k].time_signature) =>
           /\ numerator_of(bars_data[k].time_signature) > 0
           /\ Denominator(bars_data[k].time_signature) > 0

\* C6: when a validation error is raised, or the input has anything an error
\* is raised for, nothing is returned by process_bars_data or create_score
\* and the output file is never opened.
C6_NoPartialResult ==
  (processed # None \/ score # None \/ output_file # None) =>
    /\ ~ProcessFailed
    /\ ~HasDefect

\* C6 witness: the per-bar loop raised at bar 3 after bars 1 and 2 had
\* produced events.
C6_Witness ==
  /\ ProcessFailed
  /\ error.line = 217 /\ error.bar = 3
  /\ bars_data[1].time_signature # <<>> /\ bars_data[1].tempo # <<>>
  /\ bars_data[2].tempo # <<>>
  /\ processed = None /\ score = None /\ output_file = None

\* C7: no returned result has an event in the bare-fraction form whose
\* denominator is 16.
C7_NoBareSixteenth ==
  ProcessReturned =>
    \A k \in 1..Len(processed.bars) :
      processed.bars[k].timeSignature.accentPattern = None =>
        Denominator(processed.bars[k].timeSignature.timeSignature) # 16

\* C8: once the per-bar loop has dealt with a bar whose accent pattern does
\* not sum to the numerator of the time signature in force there, the
\* conversion has failed at that bar with the division-mismatch error naming
\* the pattern, its sum, the time signature and its numerator.
C8_DivisionMismatch ==
  \A k \in 1..Len(bars_data) :
    (HandledByLoop(k) /\ Mismatch(k)) =>
      error = [kind |-> "DivisionMismatch", line |-> 180, bar |-> k,
               division |-> parse_division(bars_data[k].division),
               division_sum |-> sum(parse_division(bars_data[k].division)),
               time_signature |-> InForce(k),
               numerator |-> numerator_of(InForce(k))]

\* C8 witness: the time signature was set at bar 1 and bar 2, which has no
\* time-signature field, supplies a pattern with another sum.
C8_Witness ==
  /\ Len(bars_data) >= 2
  /\ bars_data[1].time_signature = Str_4_4
  /\ bars_data[2].time_signature = <<>>
  /\ bars_data[2].division = Str_2p1
  /\ error.kind = "DivisionMismatch" /\ error.bar = 2
  /\ error.division_sum = 3 /\ error.numerator = 4

\* C9 as stated: no result without a tempo or without a time signature, and
\* a contiguous input without any tempo fails with the missing-tempo error.
C9_NoTempoIsMissingDefault ==
  /\ ( \/ \A k \in 1..Len(bars_data) : bars_data[k].tempo = <<>>
       \/ \A k \in 1..Len(bars_data) : bars_data[k].time_signature = <<>> )
     => processed = None
  /\ ( /\ ProcessEnded
       /\ Contiguous
       /\ \A k \in 1..Len(bars_data) : bars_data[k].tempo = <<>> )
     => error = ErrNoTempo

\* The first non-empty time-signature field of the input, if any, is valid
FirstTimeSignatureValid ==
  \A k \in 1..Len(bars_data) :
    ( /\ bars_data[k].time_signature # <<>>
      /\ \A m \in 1..(k - 1) : bars_data[m].time_signature = <<>> )
    => validate_time_signature(bars_data[k].time_signature)

\* C9 amended: no result without a tempo or without a time signature, and a
\* contiguous input without any tempo whose first non-empty time-signature
\* field (if any) is valid fails with the missing-tempo error.
C9_MissingDefaults ==
  /\ ( \/ \A k \in 1..Len(bars_data) : bars_data[k].tempo = <<>>
       \/ \A k \in 1..Len(bars_data) : bars_data[k].time_signature = <<>> )
     => processed = None
  /\ ( /\ ProcessEnded
       /\ Contiguous
       /\ \A k \in 1..Len(bars_data) : bars_data[k].tempo = <<>>
       /\ FirstTimeSignatureValid )
     => error = ErrNoTempo

\* C9 witness: bars with neither tempo nor time signature failed with the
\* missing-tempo error.
C9_Witness ==
  /\ Len(bars_data) = 2
  /\ \A k \in 1..2 : bars_data[k].tempo = <<>> /\ bars_data[k].time_signature = <<>>
  /\ error = ErrNoTempo

\* C10: in a returned result the tempo events are, in bar order, exactly the
\* bars with a non-empty tempo field, each with the field's integer value in
\* MinTempo..MaxTempo and with the bar's text marking (absent when empty).
C10_TempoEvents ==
  ProcessReturned =>
    LET tc == processed.tempo_changes
    IN  /\ \A k \in 1..Len(bars_data) :
             bars_data[k].tempo # <<>> =>
               /\ TempoInRange(bars_data[k].tempo)
               /\ \E j \in 1..Len(tc) : tc[j].bar = bars_data[k].bar_number
        /\ \A j \in 1..Len(tc) :
             /\ tc[j].bar \in 1..Len(bars_data)
             /\ bars_data[tc[j].bar].tempo # <<>>
             /\ tc[j].tempo = int(bars_data[tc[j].bar].tempo).val
             /\ tc[j].tempo >= MinTempo /\ tc[j].tempo <= MaxTempo
             /\ tc[j].marking = bars_data[tc[j].bar].text_marking
             /\ j > 1 => tc[j - 1].bar < tc[j].bar

\* C10 witness: of three bars, one has a tempo and a marking, one a tempo
\* only and one a marking only; two events resulted, one with a marking.
C10_Witness ==
  /\ ProcessReturned
  /\ Len(bars_data) = 3
  /\ bars_data[1].tempo # <<>> /\ bars_data[1].text_marking # <<>>
  /\ bars_data[2].tempo = <<>> /\ bars_data[2].text_marking # <<>>
  /\ bars_data[3].tempo # <<>> /\ bars_data[3].text_marking = <<>>
  /\ Len(processed.tempo_changes) = 2
  /\ processed.tempo_changes[1].marking = Str_Start
  /\ processed.tempo_changes[2].marking = <<>>

----------------------------------------------------------------------------
\* The bars with a non-empty rehearsal-marking field, in input order
MarkedBars == SelectSeq(bars_data, LAMBDA b : b.rehearsal_marking # <<>>)

\* C11: in a successful conversion the rehearsal marks correspond one-to-one,
\* in bar order, with the bars whose rehearsal-marking field is non-empty;
\* each mark has that bar's number and the field as its name, and a label
\* used at two bars gives two marks.
C11_RehearsalMarks ==
  ProcessReturned =>
    LET rm == processed.rehearsal_marks
    IN  /\ Len(rm) = Len(MarkedBars)
        /\ \A j \in 1..Len(rm) :
             /\ rm[j].bar = MarkedBars[j].bar_number
             /\ rm[j].name = MarkedBars[j].rehearsal_marking
        /\ score # None => score.rehearsalMarks = rm

\* C11 witness: bars 1 and 3 carry the same label and bar 2 none; two marks
\* with that name resulted, at bars 1 and 3.
C11_Witness ==
  /\ ProcessReturned
  /\ Len(bars_data) = 3
  /\ bars_data[1].rehearsal_marking = Str_A
  /\ bars_data[2].rehearsal_marking = <<>>
  /\ bars_data[3].rehearsal_marking = Str_A
  /\ Len(processed.rehearsal_marks) = 2
  /\ processed.rehearsal_marks[1].name = processed.rehearsal_marks[2].name
  /\ processed.rehearsal_marks[1].bar = 1
  /\ processed.rehearsal_marks[2].bar = 3

----------------------------------------------------------------------------
\* The largest bar number of the input
MaxBarNumber ==
  CHOOSE m \in {bars_data[k].bar_number : k \in 1..Len(bars_data)} :
    \A k \in 1..Len(bars_data) : bars_data[k].bar_number <= m

\* C12: in a successful conversion the total bar count equals the largest
\* bar number of the input, the number of input records and the bar number
\* of the last record, and the document carries it.
C12_TotalBars ==
  ProcessReturned =>
    /\ processed.total_bars = MaxBarNumber
    /\ processed.total_bars = Len(bars_data)
    /\ processed.total_bars = bars_data[Len(bars_data)].bar_number
    /\ score # None => score.totalBars = processed.total_bars

\* C12 witness: three bars were converted, fewer events than bars were
\* emitted, and the document counts three bars.
C12_Witness ==
  /\ score # None
  /\ Len(bars_data) = 3
  /\ Len(score.bars) = 1
  /\ score.totalBars = 3

----------------------------------------------------------------------------
\* parse_csv has read an existing file
ParseCsvEnded == entry = "main" /\ argc = 3 /\ csv_file.exists /\ pc # "main"

\* A field trimmed; a field absent from the row is the empty string
Trimmed(field) == IF field = Missing THEN <<>> ELSE strip(field)

\* The rows whose bar-number field parses as an integer, in file order
ParsableRows ==
  SelectSeq(csv_file.rows,
            LAMBDA row : row.BAR_NUMBER # Missing /\ int(strip(row.BAR_NUMBER)).ok)

\* The record parse_csv is to return for a row
RecordOf(row) ==
  Bar(int(strip(row.BAR_NUMBER)).val, Trimmed(row.TIME_SIGNATURE),
      Trimmed(row.DIVISION), Trimmed(row.TEMPO), Trimmed(row.REHEARSAL_MARKING),
      Trimmed(row.TEXT_MARKING))

\* C13: parse_csv never fails on a row; it returns exactly the rows whose
\* bar-number field parses as an integer, every other field trimmed, sorted
\* ascending by bar number with rows of equal bar number in file order.
C13_ParseCsvRows ==
  ParseCsvEnded =>
    /\ error # ErrAttribute
    /\ Len(bars_data) = Len(ParsableRows)
    /\ \A k \in 2..Len(bars_data) :
         bars_data[k - 1].bar_number <= bars_data[k].bar_number
    /\ \A v \in 1..MaxBars :
         SelectSeq(bars_data, LAMBDA b : b.bar_number = v)
           = [k \in 1..Len(SelectSeq(ParsableRows,
                                     LAMBDA row : RecordOf(row).bar_number = v))
                |-> RecordOf(SelectSeq(ParsableRows,
                                       LAMBDA row : RecordOf(row).bar_number = v)[k])]

----------------------------------------------------------------------------
\* A document with every generated id field left out
WithoutIds(doc) ==
  IF doc = None THEN None
  ELSE [title |-> doc.title, composer |-> doc.composer,
        defaultTempo |-> doc.defaultTempo, totalBars |-> doc.totalBars,
        tempoChanges |->
          [j \in 1..Len(doc.tempoChanges) |->
             [bar |-> doc.tempoChanges[j].bar, tempo |-> doc.tempoChanges[j].tempo,
              marking |-> doc.tempoChanges[j].marking]],
        rehearsalMarks |->
          [j \in 1..Len(doc.rehearsalMarks) |->
             [name |-> doc.rehearsalMarks[j].name, bar |-> doc.rehearsalMarks[j].bar]],
        bars |->
          [j \in 1..Len(doc.bars) |->
             [number |-> doc.bars[j].number,
              timeSignature |-> doc.bars[j].timeSignature]]]

\* The second call of create_score on the same input has ended
SecondCallEnded == previous.called /\ pc \in {"returned", "raised"}

\* C14: a second call of create_score on the same input ends as the first
\* one did: with the same error, or with a document equal to the first one
\* once the generated ids are left out.
C14_SameOutcome ==
  SecondCallEnded =>
    /\ error = previous.error
    /\ WithoutIds(score) = WithoutIds(previous.score)

\* C14 witness: both calls returned documents with two time-signature
\* events and two tempo changes or more, and the ids of the two differ.
C14_Witness ==
  /\ SecondCallEnded
  /\ score # None /\ previous.score # None
  /\ Len(score.bars) >= 2
  /\ Len(score.tempoChanges) >= 2
  /\ score.id # previous.score.id
  /\ score.bars[1].id # previous.score.bars[1].id

----------------------------------------------------------------------------
\* The accent pattern bar k supplies, None if its division field is empty
PatternOf(k) ==
  IF bars_data[k].division = <<>> THEN None
  ELSE parse_division(bars_data[k].division)

\* The events emitted at bars before bar k
EventsBefore(k) == SelectSeq(processed.bars, LAMBDA e : e.number < k)

\* C15: the accent pattern of every emitted event is the pattern its own bar
\* supplies, absent (the bare form) when the bar supplies none, whatever the
\* pattern in force before; the running pattern is that of the last event;
\* and a bar that supplies a pattern after a bare event emits an event.
C15_EventFormFromBar ==
  /\ ProcessReturned =>
       /\ \A j \in 1..Len(processed.bars) :
            processed.bars[j].timeSignature.accentPattern
              = PatternOf(processed.bars[j].number)
       /\ \A k \in 1..Len(bars_data) :
            ( /\ PatternOf(k) # None
              /\ EventsBefore(k) # <<>>
              /\ EventsBefore(k)[Len(EventsBefore(k))].timeSignature.accentPattern
                   = None )
            => \E j \in 1..Len(processed.bars) : processed.bars[j].number = k
  /\ (pc = "per_bar" /\ bars # <<>>) =>
       current_accent_pattern = bars[Len(bars)].timeSignature.accentPattern

\* C15 witness: bar 1 sets a time signature with a pattern, bar 2 another
\* time signature with the same numerator and no division, bar 3 restates
\* the pattern of bar 1: the events are paired, bare, paired.
C15_Witness ==
  /\ ProcessReturned
  /\ Len(bars_data) = 3
  /\ bars_data[1].time_signature = Str_4_16 /\ bars_data[1].division = Str_2p2
  /\ bars_data[2].time_signature = Str_4_4 /\ bars_data[2].division = <<>>
  /\ bars_data[3].time_signature = <<>> /\ bars_data[3].division = Str_2p2
  /\ Len(processed.bars) = 3
  /\ processed.bars[1].timeSignature.accentPattern = <<2, 2>>
  /\ processed.bars[2].timeSignature = time_sig_obj(Str_4_4, None)
  /\ processed.bars[3].timeSignature = time_sig_obj(Str_4_4, <<2, 2>>)

----------------------------------------------------------------------------
\* The per-bar loop goes past bar i without raising
BarPassed == pc = "per_bar" /\ i' = i + 1

\* C16: when the per-bar loop goes past a bar, it appends one time-signature
\* event, numbered as the bar, if and only if the bar's non-empty
\* time-signature field differs from the running time signature or its
\* non-empty accent pattern differs from the running accent pattern;
\* otherwise it appends nothing and leaves both running values unchanged.
C16_EmitsIffChanged ==
  [][ BarPassed =>
        LET differs ==
              \/ /\ bars_data[i].time_signature # <<>>
                 /\ bars_data[i].time_signature # current_time_signature
              \/ /\ PatternOf(i) # None
                 /\ PatternOf(i) # current_accent_pattern
        IN  /\ differs =>
                 /\ Len(bars') = Len(bars) + 1
                 /\ SubSeq(bars', 1, Len(bars)) = bars
                 /\ bars'[Len(bars')].number = bars_data[i].bar_number
            /\ ~differs =>
                 /\ bars' = bars
                 /\ UNCHANGED <<current_time_signature, current_accent_pattern>>
    ]_vars

\* C16 witness: bar 2 restated the time signature and the division of bar 1,
\* the loop is past it and only the event of bar 1 was emitted.
C16_Witness ==
  /\ pc = "per_bar" /\ i = 3
  /\ bars_data[1].time_signature # <<>> /\ bars_data[1].division # <<>>
  /\ bars_data[2].time_signature = bars_data[1].time_signature
  /\ bars_data[2].division = bars_data[1].division
  /\ Len(bars) = 1 /\ bars[1].number = 1
  /\ current_time_signature = bars_data[1].time_signature

----------------------------------------------------------------------------
\* The positions of the bars with a non-empty tempo field
BarsWithTempo == {k \in 1..Len(bars_data) : bars_data[k].tempo # <<>>}

\* The positions of the bars with a non-empty time-signature field
BarsWithTimeSignature ==
  {k \in 1..Len(bars_data) : bars_data[k].time_signature # <<>>}

\* C17: in a returned result the default tempo is the tempo of the first bar
\* with a non-empty tempo field and the first tempo event has that bar and
\* that tempo; there is a time-signature event at the first bar with a
\* non-empty time-signature field, and it carries that field.
C17_DefaultsFromFirstBars ==
  ProcessReturned =>
    /\ BarsWithTempo # {}
    /\ BarsWithTimeSignature # {}
    /\ LET first_tempo == bars_data[Least(BarsWithTempo)]
           first_ts    == bars_data[Least(BarsWithTimeSignature)]
       IN  /\ processed.default_tempo = int(first_tempo.tempo).val
           /\ processed.tempo_changes # <<>>
           /\ processed.tempo_changes[1].bar = first_tempo.bar_number
           /\ processed.tempo_changes[1].tempo = processed.default_tempo
           /\ processed.bars # <<>>
           /\ \E j \in 1..Len(processed.bars) :
                /\ processed.bars[j].number = first_ts.bar_number
                /\ processed.bars[j].timeSignature.timeSignature
                     = first_ts.time_signature
           /\ score # None => score.defaultTempo = processed.default_tempo

\* C17 witness: bar 1 has neither tempo nor time signature, bars 2 and 3
\* have both; the default tempo and the first events are those of bar 2.
C17_Witness ==
  /\ ProcessReturned
  /\ Len(bars_data) = 3
  /\ bars_data[1].tempo = <<>> /\ bars_data[1].time_signature = <<>>
  /\ bars_data[2].tempo # <<>> /\ bars_data[2].time_signature # <<>>
  /\ bars_data[3].tempo # <<>> /\ bars_data[3].time_signature # <<>>
  /\ processed.default_tempo = 120
  /\ processed.tempo_changes[1].bar = 2
  /\ processed.bars[1].number = 2

----------------------------------------------------------------------------
\* C18: every time-signature event of a returned result carries a time
\* signature, and none is at a bar before the first bar with a non-empty
\* time-signature field.
C18_EventsCarryTimeSignature ==
  ProcessReturned =>
    \A j \in 1..Len(processed.bars) :
      /\ processed.bars[j].timeSignature.timeSignature # None
      /\ \E k \in BarsWithTimeSignature :
           bars_data[k].bar_number <= processed.bars[j].number

----------------------------------------------------------------------------
\* The first non-empty tempo field is not a valid tempo
FirstTempoInvalid ==
  /\ BarsWithTempo # {}
  /\ ~TempoInRange(bars_data[Least(BarsWithTempo)].tempo)

\* The first non-empty time-signature field is not a valid time signature
FirstTimeSignatureInvalid ==
  /\ BarsWithTimeSignature # {}
  /\ ~validate_time_signature(bars_data[Least(BarsWithTimeSignature)].time_signature)

\* The line of the error the per-bar pass raises at bar k when it is the
\* first bar with a per-bar violation, 0 if bar k has none: division syntax,
\* time-signature syntax, mismatch, /16 requirement, tempo, in this order.
PerBarViolation(k) ==
  IF bars_data[k].division # <<>> /\ parse_division(bars_data[k].division) = None
    THEN 164
  ELSE IF /\ bars_data[k].time_signature # <<>>
          /\ ~validate_time_signature(bars_data[k].time_signature)
    THEN 170
  ELSE IF Mismatch(k) THEN 180
  ELSE IF SixteenthWithoutDivision(k) THEN 185
  ELSE IF bars_data[k].tempo # <<>> /\ ~TempoInRange(bars_data[k].tempo) THEN 217
  ELSE 0

BarsInViolation == {k \in 1..Len(bars_data) : PerBarViolation(k) # 0}

\* The error the stages, run in the stated order, report for bars_data: the
\* line it is raised at and the bar it names (0: none).
ExpectedError ==
  IF bars_data = <<>> THEN [line |-> 113, bar |-> 0]
  ELSE IF OutOfSequence # {} THEN [line |-> 119, bar |-> 0]
  ELSE IF FirstTempoInvalid
          /\ (FirstTimeSignatureInvalid
                => Least(BarsWithTempo) <= Least(BarsWithTimeSignature))
    THEN [line |-> 132, bar |-> Least(BarsWithTempo)]
  ELSE IF FirstTimeSignatureInvalid
    THEN [line |-> 138, bar |-> Least(BarsWithTimeSignature)]
  ELSE IF BarsWithTempo = {} THEN [line |-> 144, bar |-> 0]
  ELSE IF BarsWithTimeSignature = {} THEN [line |-> 146, bar |-> 0]
  ELSE IF BarsInViolation # {}
    THEN LET k == Least(BarsInViolation)
         IN  [line |-> PerBarViolation(k), bar |-> k]
  ELSE [line |-> 0, bar |-> 0]

\* C19: the error process_bars_data ends with is the one of the first stage
\* that finds a defect, the stages being sequencing, defaults discovery,
\* missing tempo, missing time signature and the per-bar pass; the per-bar
\* pass names the first bar in violation and reports its first violation in
\* the order division syntax, time-signature syntax, mismatch, /16, tempo.
\* A result is returned only when no stage finds a defect.
C19_StageOrder ==
  ProcessEnded =>
    LET expected == ExpectedError
    IN  IF expected.line = 0 THEN ProcessReturned
        ELSE /\ ProcessFailed
             /\ error.line = expected.line
             /\ expected.bar # 0 => error.bar = expected.bar

\* C19 witness: bar 1 has an invalid division, the first tempo is at bar 2
\* and is invalid; the invalid tempo of bar 2 was reported by the defaults
\* discovery.
C19_Witness ==
  /\ ProcessFailed
  /\ Len(bars_data) = 3
  /\ PerBarViolation(1) = 164
  /\ bars_data[1].tempo = <<>>
  /\ bars_data[2].tempo = Str_abc
  /\ error = ErrInvalidTempo(132, Str_abc, 2)

====
